---- MODULE Spec2Model ----
(***************************************************************************)
(* Model of BinanceArbBot (src/modules/BinanceArb.py): the retry wrapper,  *)
(* the opening loop (open_position), the closing loop                      *)
(* (close_position_utils) and its supervisor (close_position).             *)
(*                                                                         *)
(* One sequential process.  pc is its position in the code.  The exchange  *)
(* is the environment: every call to it either answers or raises, and the  *)
(* free balance it reports changes when an order or a transfer goes        *)
(* through.  Python's exceptions are modelled by their class: exit()       *)
(* raises SystemExit, which is not an Exception, so `except Exception`     *)
(* does not catch it.                                                      *)
(*                                                                         *)
(* Four specifications share the variables: Spec (the two loops), SpecOpen *)
(* (the opening loop, fairly scheduled), SpecRetry (one bare retry_wrapper *)
(* call, with the clock it reads for the timestamp) and SpecSizing (the    *)
(* two contract_num formulas).  Quotes are integers, in thousandths.       *)
(***************************************************************************)
EXTENDS Integers, Sequences, FiniteSets, TLC

\* ---------------------------------------------------------------- bounds
MaxTrial == 3      \* largest max_trial tried
MaxNum == 2        \* largest num_maximum tried
MaxRestarts == 2   \* supervisor restarts after which the exchange stops failing unwrapped calls
MaxPolls == 3      \* polls of one loop run that are counted (the count stays there afterwards)
MaxAmount == 8     \* largest self.amount tried by the sizing specification

SpotPrices == {1000}                      \* best spot quotes the exchange may answer
FuturePrices == {1001, 1002, 1005, 1010}  \* best coin-margin quotes the exchange may answer
Thresholds == {50}                        \* threshold, in 1/10000 (50 = 0.005)
Balances == {3, 5}               \* free balances the exchange may report

VARIABLES
    mode,             \* entry point run by the process: "open", "close", or "retry" (a bare retry_wrapper call)
    max_trial,        \* self.max_trial
    num_maximum,      \* self.num_maximum
    threshold,        \* self.threshold, in 1/10000
    pc,               \* position of the process
    execute_num,      \* open_position's counter
    now_execute_num,  \* close_position_utils' counter
    spot_ask1,        \* last spot quote read by the running loop
    coin_bid1,        \* last coin-margin quote read by the running loop
    balance,          \* exchange side: free balance of the coin, as fetch_balance() reports it
    num,              \* local `num`: the last free balance read
    func,             \* retry_wrapper's func argument
    params,           \* retry_wrapper's params argument
    is_exit,          \* retry_wrapper's is_exit argument
    trace,            \* outcome of each attempt of the current retry_wrapper call
    result,           \* value returned by the last retry_wrapper call
    exc,              \* exception in flight or that ended the process, "none" otherwise
    raised_at,        \* position at which the last exception was raised
    alerts,           \* number of send_dd_msg calls
    restarts,         \* number of times the supervisor caught an exception
    done,             \* steps of the current cycle whose retry_wrapper call returned a result
    submitted,        \* requests of the current retry_wrapper call that reached the exchange
    completed,        \* cycles completed by the process since it started
    polls,            \* polls of the current loop run whose spread was computed, counted up to MaxPolls
    met,              \* polls of the current loop run that started a cycle
    transfers,        \* transfers of the current loop run whose retry_wrapper call returned a result
    now,              \* time.time() in milliseconds, as retry_wrapper last read it
    called,           \* the keyword parameters func was called with, over the current retry_wrapper call
    amount,           \* self.amount
    multipler,        \* self.multipler[self.coin]
    contract_num      \* contract_num as open_position and close_position_utils compute it

vars == <<mode, max_trial, num_maximum, threshold, pc, execute_num, now_execute_num,
          spot_ask1, coin_bid1, balance, num, func, params, is_exit, trace, result,
          exc, raised_at, alerts, restarts, done, submitted, completed,
          polls, met, transfers, now, called, amount, multipler, contract_num>>

\* The configuration and result of position sizing.
sizing == <<amount, multipler, contract_num>>

\* ------------------------------------------------------- exception classes
\* Classes deriving from Exception; SystemExit derives from BaseException only.
IsException(e) == e \in {"GatewayError", "ValueError", "TypeError"}

\* Mutation of WrapperCatches: the wrapper retries exchange failures only.
WrapperCatchesGatewayOnly(e) == e = "GatewayError"

\* Mutation of WrapperCatches: exchange failures are not caught.
WrapperCatchesNoGatewayError(e) == e \in {"ValueError", "TypeError"}

\* `except Exception` of retry_wrapper.
WrapperCatches(e) == IsException(e)

\* Mutation of SupervisorCatches: a bare `except:` that also catches SystemExit.
SupervisorCatchesAll(e) == TRUE

\* Mutation of SupervisorCatches: no except clause.
SupervisorCatchesNothing(e) == FALSE

\* `except Exception` of close_position.
SupervisorCatches(e) == IsException(e)

\* Where the process is after exception e leaves the running entry point.
Unwind(m, e) ==
    IF m = "close" /\ SupervisorCatches(e) THEN "c_caught"
    ELSE IF e = "SystemExit" THEN "terminated"
    ELSE "raised"

\* ------------------------------------------------------ exchange operations
\* Each takes the keyword parameters and the exchange's answer gw ("ok" or
\* "error") and gives the exception raised ("none": it returned) and whether
\* the request reached the exchange.
binance_spot_place_order(p, gw) ==
    IF p.direction \in {"long", "short"}
    THEN [exc |-> IF gw = "ok" THEN "none" ELSE "GatewayError", reached |-> TRUE]
    ELSE [exc |-> "ValueError", reached |-> FALSE]

\* `raise NotImplemented(...)`: NotImplemented is not callable, a TypeError.
binance_future_place_order(p, gw) ==
    IF p.direction \in {"open_short", "close_short"}
    THEN [exc |-> IF gw = "ok" THEN "none" ELSE "GatewayError", reached |-> TRUE]
    ELSE [exc |-> "TypeError", reached |-> FALSE]

binance_account_transfer(p, gw) ==
    IF \/ (p.from_account = "spot" /\ p.to_account = "coin-margin")
       \/ (p.from_account = "coin-margin" /\ p.to_account = "spot")
    THEN [exc |-> IF gw = "ok" THEN "none" ELSE "GatewayError", reached |-> TRUE]
    ELSE [exc |-> "ValueError", reached |-> FALSE]

\* Any other callable handed to retry_wrapper: a request to the exchange that
\* accepts whatever keywords it is given.
exchange_call(p, gw) ==
    [exc |-> IF gw = "ok" THEN "none" ELSE "GatewayError", reached |-> TRUE]

\* func(**params)
Call(f, p, gw) ==
    CASE f = "binance_spot_place_order" -> binance_spot_place_order(p, gw)
      [] f = "binance_future_place_order" -> binance_future_place_order(p, gw)
      [] f = "binance_account_transfer" -> binance_account_transfer(p, gw)
      [] f = "exchange_call" -> exchange_call(p, gw)

\* The step of a cycle an operation is.
StepOf(f) ==
    CASE f = "binance_spot_place_order" -> "spot"
      [] f = "binance_future_place_order" -> "future"
      [] f = "binance_account_transfer" -> "transfer"
      [] f = "exchange_call" -> "call"

\* ------------------------------------------------------------ retry_wrapper
\* Positions at which the process is inside retry_wrapper.
CallSites == {"o_order1", "o_order2", "o_transfer",
              "c_order1", "c_order2", "c_transfer", "call"}

\* Mutation of AfterCall: the second order of a cycle is skipped.
AfterCallSkipsOrder(site) ==
    CASE site = "o_order1" -> "o_order2_done"
      [] site = "o_order2" -> "o_order2_done"
      [] site = "o_transfer" -> "o_transfer_done"
      [] site = "c_order1" -> "c_order2_done"
      [] site = "c_order2" -> "c_order2_done"
      [] site = "c_transfer" -> "c_transfer_done"
      [] site = "call" -> "returned"

\* Position after retry_wrapper returns.
AfterCall(site) ==
    CASE site = "o_order1" -> "o_order1_done"
      [] site = "o_order2" -> "o_order2_done"
      [] site = "o_transfer" -> "o_transfer_done"
      [] site = "c_order1" -> "c_order1_done"
      [] site = "c_order2" -> "c_order2_done"
      [] site = "c_transfer" -> "c_transfer_done"
      [] site = "call" -> "returned"

\* Mutation of MoreTrials: one pass too many.
MoreTrialsOffByOne(n, max) == n <= max

\* `for _ in range(self.max_trial)`: is there a pass left after n passes.
MoreTrials(n, max) == n < max

\* Mutation of AfterAttempt: the result is kept but the loop is not left.
AfterAttemptNoReturn(m, site, e) ==
    IF e = "none" THEN site
    ELSE IF WrapperCatches(e) THEN site
    ELSE Unwind(m, e)

\* Position after one pass whose call ended with e: `return result` on
\* success, the except clause and the next pass on an Exception, otherwise
\* the exception leaves retry_wrapper.
AfterAttempt(m, site, e) ==
    IF e = "none" THEN AfterCall(site)
    ELSE IF WrapperCatches(e) THEN site
    ELSE Unwind(m, e)

NoResult == [op |-> "None", attempt |-> 0]

attempts == Len(trace)

\* The default of retry_wrapper's sleep_seconds argument; no caller passes another.
sleep_seconds == 1

\* Milliseconds that may pass, besides the sleep, between two reads of the clock.
Delays == {0, 300, 700}

\* `'timestamp' in list(params.keys())`
HasTimestamp(p) == "timestamp" \in DOMAIN p

\* What time.time() may answer on pass n + 1, in milliseconds, when it answered
\* last on the pass before: the except clause slept sleep_seconds in between.
\* The clock is read only when params carries a timestamp.
ClockReadings(p, last, n) ==
    IF HasTimestamp(p)
    THEN {last + (IF n = 0 THEN 0 ELSE sleep_seconds * 1000) + d : d \in Delays}
    ELSE {last}

\* `int(time.time()) * 1000` at clock reading t (milliseconds): the seconds are
\* truncated before the multiplication.
Timestamp(t) == (t \div 1000) * 1000

\* Mutation of Stamped: the timestamp is written whether or not the key is there.
StampedAlways(p, t) == [timestamp |-> Timestamp(t)] @@ p

\* params after `if ... 'timestamp' in list(params.keys()): params['timestamp'] = ...`.
Stamped(p, t) ==
    IF HasTimestamp(p) THEN [p EXCEPT !.timestamp = Timestamp(t)] ELSE p

\* Mutation of ExitsWhenExhausted: exit() whatever is_exit says.
ExitsAlways(flag) == TRUE

\* `if is_exit: exit()`
ExitsWhenExhausted(flag) == flag

\* One pass of the for loop: refresh the timestamp, call func; return its
\* result, or catch the exception, log, sleep and go round again.
RetryAttempt ==
    /\ pc \in CallSites
    /\ MoreTrials(attempts, max_trial)
    /\ \E t \in ClockReadings(params, now, attempts), gw \in {"ok", "error"} :
         LET p == Stamped(params, t)
             out == Call(func, p, gw) IN
           /\ now' = t
           /\ params' = p
           /\ called' = called \cup {p}
           /\ transfers' = transfers +
                  (IF out.exc = "none" /\ func = "binance_account_transfer" THEN 1 ELSE 0)
           /\ trace' = Append(trace, out.exc)
           /\ submitted' = submitted + (IF out.reached THEN 1 ELSE 0)
           /\ pc' = AfterAttempt(mode, pc, out.exc)
           /\ IF out.exc = "none"
              THEN /\ result' = [op |-> func, attempt |-> attempts + 1]
                   /\ done' = done \cup {StepOf(func)}
                   /\ balance' \in Balances
                   /\ UNCHANGED <<exc, raised_at>>
              ELSE IF WrapperCatches(out.exc)
              THEN UNCHANGED <<result, done, balance, exc, raised_at>>
              ELSE /\ exc' = out.exc
                   /\ raised_at' = pc
                   /\ UNCHANGED <<result, done, balance>>
    /\ UNCHANGED <<mode, max_trial, num_maximum, threshold, execute_num, now_execute_num,
                   spot_ask1, coin_bid1, num, func, is_exit, alerts, restarts,
                   completed, polls, met, sizing>>

\* The else clause of the for loop: no pass returned.  Log, alert, exit().
RetryExhausted ==
    /\ pc \in CallSites
    /\ ~MoreTrials(attempts, max_trial)
    /\ alerts' = alerts + 1
    /\ IF ExitsWhenExhausted(is_exit)
       THEN /\ pc' = Unwind(mode, "SystemExit")
            /\ exc' = "SystemExit"
            /\ raised_at' = pc
            /\ result' = result
       ELSE /\ pc' = AfterCall(pc)
            /\ result' = NoResult
            /\ UNCHANGED <<exc, raised_at>>
    /\ UNCHANGED <<mode, max_trial, num_maximum, threshold, execute_num, now_execute_num,
                   spot_ask1, coin_bid1, balance, num, func, params, is_exit, trace,
                   restarts, done, submitted, completed>>
    /\ UNCHANGED <<polls, met, transfers, now, called, sizing>>

\* ------------------------------------------------------------ the two loops
\* r = float(coin_bid1) / float(spot_ask1) - 1 against the threshold, with
\* both sides multiplied by 10000 * spot (spot > 0).
\* Mutation of RLessThanThreshold: a spread equal to the threshold does not trigger.
RLessOrEqualThreshold(fut, spot, t) == (fut - spot) * 10000 <= t * spot

\* `r < self.threshold` of open_position
RLessThanThreshold(fut, spot, t) == (fut - spot) * 10000 < t * spot

\* Mutation of RGreaterThanThreshold: a spread equal to the threshold does not trigger.
RGreaterOrEqualThreshold(fut, spot, t) == (fut - spot) * 10000 >= t * spot

\* `r > self.threshold` of close_position_utils
RGreaterThanThreshold(fut, spot, t) == (fut - spot) * 10000 > t * spot

\* Mutation of OpenOrders: coin-margin order first.
OpenOrdersFutureFirst == <<"binance_future_place_order", "binance_spot_place_order">>

\* The two orders of an opening cycle, in the order open_position places them.
OpenOrders == <<"binance_spot_place_order", "binance_future_place_order">>

\* Mutation of CloseOrders: spot order first.
CloseOrdersSpotFirst == <<"binance_spot_place_order", "binance_future_place_order">>

\* The two orders of a closing cycle, in the order close_position_utils places them.
CloseOrders == <<"binance_future_place_order", "binance_spot_place_order">>

\* The params dict built for an order (price and quantity left out).
OrderParams(m, f) ==
    IF f = "binance_spot_place_order"
    THEN [symbol |-> "type2", direction |-> IF m = "open" THEN "long" ELSE "short"]
    ELSE [symbol |-> "type1", direction |-> IF m = "open" THEN "open_short" ELSE "close_short"]

\* The params dict built for the transfer of amount a.
TransferParams(m, a) ==
    IF m = "open"
    THEN [currency |-> "coin", amount |-> a, from_account |-> "spot", to_account |-> "coin-margin"]
    ELSE [currency |-> "coin", amount |-> a, from_account |-> "coin-margin", to_account |-> "spot"]

\* Mutation of Counted: the counter is incremented twice for one cycle.
CountedTwice(n) == n + 2

\* `execute_num += 1`, `now_execute_num += 1`
Counted(n) == n + 1

\* Mutation of MaxReached: one cycle too many.
MaxReachedStrict(n, max) == n > max

\* `if execute_num >= self.num_maximum`, `if now_execute_num >= self.num_maximum`
MaxReached(n, max) == n >= max

\* Mutation of CounterAtEntry: the counter survives a restart of the loop.
CounterAtEntryKept(n) == n

\* `now_execute_num = 0` at the entry of close_position_utils.
CounterAtEntry(n) == 0

\* An exception e raised by a call that is not wrapped.
Raise(e) ==
    /\ exc' = e
    /\ raised_at' = pc
    /\ pc' = Unwind(mode, e)

\* Mutation of Enter: the loops pass is_exit=False.
EnterNoExit(site, f, p) ==
    /\ pc' = site
    /\ func' = f
    /\ params' = p
    /\ is_exit' = FALSE
    /\ trace' = <<>>
    /\ submitted' = 0
    /\ called' = {}

\* retry_wrapper(func=f, params=p, ...) entered from a loop; is_exit keeps its default.
Enter(site, f, p) ==
    /\ pc' = site
    /\ func' = f
    /\ params' = p
    /\ is_exit' = TRUE
    /\ trace' = <<>>
    /\ submitted' = 0
    /\ called' = {}

\* ---- open_position
OpenFetchSpotQuote ==
    /\ mode = "open" /\ pc = "o_spot_quote"
    /\ \/ /\ spot_ask1' \in SpotPrices
          /\ pc' = "o_future_quote"
          /\ UNCHANGED <<exc, raised_at>>
       \/ /\ Raise("GatewayError")
          /\ UNCHANGED spot_ask1
    /\ UNCHANGED <<mode, max_trial, num_maximum, threshold, execute_num, now_execute_num,
                   coin_bid1, balance, num, func, params, is_exit, trace, result,
                   alerts, restarts, done, submitted, completed>>
    /\ UNCHANGED <<polls, met, transfers, now, called, sizing>>

OpenFetchFutureQuote ==
    /\ mode = "open" /\ pc = "o_future_quote"
    /\ \/ /\ coin_bid1' \in FuturePrices
          /\ pc' = "o_decide"
          /\ UNCHANGED <<exc, raised_at>>
       \/ /\ Raise("GatewayError")
          /\ UNCHANGED coin_bid1
    /\ UNCHANGED <<mode, max_trial, num_maximum, threshold, execute_num, now_execute_num,
                   spot_ask1, balance, num, func, params, is_exit, trace, result,
                   alerts, restarts, done, submitted, completed>>
    /\ UNCHANGED <<polls, met, transfers, now, called, sizing>>

\* `if r < self.threshold` ... else: the first order of the cycle.
OpenDecide ==
    /\ mode = "open" /\ pc = "o_decide"
    /\ IF RLessThanThreshold(coin_bid1, spot_ask1, threshold)
       THEN /\ pc' = "o_check"
            /\ met' = met
            /\ UNCHANGED <<func, params, is_exit, trace, done, submitted, called>>
       ELSE /\ Enter("o_order1", OpenOrders[1], OrderParams("open", OpenOrders[1]))
            /\ done' = {}
            /\ met' = met + 1
    /\ UNCHANGED <<mode, max_trial, num_maximum, threshold, execute_num, now_execute_num,
                   spot_ask1, coin_bid1, balance, num, result, exc, raised_at,
                   alerts, restarts, completed>>
    /\ polls' = IF polls < MaxPolls THEN polls + 1 ELSE polls
    /\ UNCHANGED <<transfers, now, sizing>>

OpenSecondOrder ==
    /\ mode = "open" /\ pc = "o_order1_done"
    /\ Enter("o_order2", OpenOrders[2], OrderParams("open", OpenOrders[2]))
    /\ UNCHANGED <<mode, max_trial, num_maximum, threshold, execute_num, now_execute_num,
                   spot_ask1, coin_bid1, balance, num, result, exc, raised_at,
                   alerts, restarts, done, completed>>
    /\ UNCHANGED <<polls, met, transfers, now, sizing>>

\* time.sleep(2); fetch_balance(); the transfer of the balance just read.
OpenTransfer ==
    /\ mode = "open" /\ pc = "o_order2_done"
    /\ \/ /\ num' = balance
          /\ Enter("o_transfer", "binance_account_transfer", TransferParams("open", balance))
          /\ UNCHANGED <<exc, raised_at>>
       \/ /\ Raise("GatewayError")
          /\ UNCHANGED <<num, func, params, is_exit, trace, submitted, called>>
    /\ UNCHANGED <<mode, max_trial, num_maximum, threshold, execute_num, now_execute_num,
                   spot_ask1, coin_bid1, balance, result,
                   alerts, restarts, done, completed>>
    /\ UNCHANGED <<polls, met, transfers, now, sizing>>

OpenCount ==
    /\ mode = "open" /\ pc = "o_transfer_done"
    /\ execute_num' = Counted(execute_num)
    /\ completed' = completed + 1
    /\ pc' = "o_check"
    /\ UNCHANGED <<mode, max_trial, num_maximum, threshold, now_execute_num,
                   spot_ask1, coin_bid1, balance, num, func, params, is_exit, trace, result,
                   exc, raised_at, alerts, restarts, done, submitted>>
    /\ UNCHANGED <<polls, met, transfers, now, called, sizing>>

\* time.sleep(2); `if execute_num >= self.num_maximum: break`
OpenCheck ==
    /\ mode = "open" /\ pc = "o_check"
    /\ pc' = IF MaxReached(execute_num, num_maximum) THEN "returned" ELSE "o_spot_quote"
    /\ UNCHANGED <<mode, max_trial, num_maximum, threshold, execute_num, now_execute_num,
                   spot_ask1, coin_bid1, balance, num, func, params, is_exit, trace, result,
                   exc, raised_at, alerts, restarts, done, submitted, completed>>
    /\ UNCHANGED <<polls, met, transfers, now, called, sizing>>

\* ---- close_position and close_position_utils
\* The exchange fails a call that is not wrapped only MaxRestarts times.
MayFail == restarts < MaxRestarts

\* The entry of close_position_utils: the two balance reads, the counter.
CloseEntry ==
    /\ mode = "close" /\ pc = "c_entry"
    /\ \/ /\ num' = balance
          /\ now_execute_num' = CounterAtEntry(now_execute_num)
          /\ pc' = "c_spot_quote"
          /\ polls' = 0 /\ met' = 0 /\ transfers' = 0
          /\ UNCHANGED <<exc, raised_at>>
       \/ /\ MayFail
          /\ Raise("GatewayError")
          /\ UNCHANGED <<num, now_execute_num, polls, met, transfers>>
    /\ UNCHANGED <<mode, max_trial, num_maximum, threshold, execute_num,
                   spot_ask1, coin_bid1, balance, func, params, is_exit, trace, result,
                   alerts, restarts, done, submitted, completed>>
    /\ UNCHANGED <<now, called, sizing>>

CloseFetchSpotQuote ==
    /\ mode = "close" /\ pc = "c_spot_quote"
    /\ \/ /\ spot_ask1' \in SpotPrices
          /\ pc' = "c_future_quote"
          /\ UNCHANGED <<exc, raised_at>>
       \/ /\ MayFail
          /\ Raise("GatewayError")
          /\ UNCHANGED spot_ask1
    /\ UNCHANGED <<mode, max_trial, num_maximum, threshold, execute_num, now_execute_num,
                   coin_bid1, balance, num, func, params, is_exit, trace, result,
                   alerts, restarts, done, submitted, completed>>
    /\ UNCHANGED <<polls, met, transfers, now, called, sizing>>

CloseFetchFutureQuote ==
    /\ mode = "close" /\ pc = "c_future_quote"
    /\ \/ /\ coin_bid1' \in FuturePrices
          /\ pc' = "c_decide"
          /\ UNCHANGED <<exc, raised_at>>
       \/ /\ MayFail
          /\ Raise("GatewayError")
          /\ UNCHANGED coin_bid1
    /\ UNCHANGED <<mode, max_trial, num_maximum, threshold, execute_num, now_execute_num,
                   spot_ask1, balance, num, func, params, is_exit, trace, result,
                   alerts, restarts, done, submitted, completed>>
    /\ UNCHANGED <<polls, met, transfers, now, called, sizing>>

\* `if r > self.threshold` ... else: the first order of the cycle.
CloseDecide ==
    /\ mode = "close" /\ pc = "c_decide"
    /\ IF RGreaterThanThreshold(coin_bid1, spot_ask1, threshold)
       THEN /\ pc' = "c_check"
            /\ met' = met
            /\ UNCHANGED <<func, params, is_exit, trace, done, submitted, called>>
       ELSE /\ Enter("c_order1", CloseOrders[1], OrderParams("close", CloseOrders[1]))
            /\ done' = {}
            /\ met' = met + 1
    /\ UNCHANGED <<mode, max_trial, num_maximum, threshold, execute_num, now_execute_num,
                   spot_ask1, coin_bid1, balance, num, result, exc, raised_at,
                   alerts, restarts, completed>>
    /\ polls' = IF polls < MaxPolls THEN polls + 1 ELSE polls
    /\ UNCHANGED <<transfers, now, sizing>>

CloseSecondOrder ==
    /\ mode = "close" /\ pc = "c_order1_done"
    /\ Enter("c_order2", CloseOrders[2], OrderParams("close", CloseOrders[2]))
    /\ UNCHANGED <<mode, max_trial, num_maximum, threshold, execute_num, now_execute_num,
                   spot_ask1, coin_bid1, balance, num, result, exc, raised_at,
                   alerts, restarts, done, completed>>
    /\ UNCHANGED <<polls, met, transfers, now, sizing>>

\* time.sleep(2); the transfer of `num`, read at the entry of close_position_utils.
CloseTransfer ==
    /\ mode = "close" /\ pc = "c_order2_done"
    /\ Enter("c_transfer", "binance_account_transfer", TransferParams("close", num))
    /\ UNCHANGED <<mode, max_trial, num_maximum, threshold, execute_num, now_execute_num,
                   spot_ask1, coin_bid1, balance, num, result, exc, raised_at,
                   alerts, restarts, done, completed>>
    /\ UNCHANGED <<polls, met, transfers, now, sizing>>

CloseCount ==
    /\ mode = "close" /\ pc = "c_transfer_done"
    /\ now_execute_num' = Counted(now_execute_num)
    /\ completed' = completed + 1
    /\ pc' = "c_check"
    /\ UNCHANGED <<mode, max_trial, num_maximum, threshold, execute_num,
                   spot_ask1, coin_bid1, balance, num, func, params, is_exit, trace, result,
                   exc, raised_at, alerts, restarts, done, submitted>>
    /\ UNCHANGED <<polls, met, transfers, now, called, sizing>>

\* time.sleep(2); `if now_execute_num >= self.num_maximum: exit()`
CloseCheck ==
    /\ mode = "close" /\ pc = "c_check"
    /\ IF MaxReached(now_execute_num, num_maximum)
       THEN Raise("SystemExit")
       ELSE /\ pc' = "c_spot_quote"
            /\ UNCHANGED <<exc, raised_at>>
    /\ UNCHANGED <<mode, max_trial, num_maximum, threshold, execute_num, now_execute_num,
                   spot_ask1, coin_bid1, balance, num, func, params, is_exit, trace, result,
                   alerts, restarts, done, submitted, completed>>
    /\ UNCHANGED <<polls, met, transfers, now, called, sizing>>

\* The except clause of close_position: log, sleep, call close_position_utils again.
Supervisor ==
    /\ mode = "close" /\ pc = "c_caught"
    /\ restarts' = restarts + 1
    /\ exc' = "none"
    /\ pc' = "c_entry"
    /\ UNCHANGED <<mode, max_trial, num_maximum, threshold, execute_num, now_execute_num,
                   spot_ask1, coin_bid1, balance, num, func, params, is_exit, trace, result,
                   raised_at, alerts, done, submitted, completed>>
    /\ UNCHANGED <<polls, met, transfers, now, called, sizing>>

\* ---- position sizing
\* Quotes are in thousandths: the quote 1.2 is 1200.
PriceUnit == 1000

\* `contract_num = int(self.amount / self.multipler[self.coin])` of open_position
OpenContractNum(a, m) == a \div m

\* Mutation of CloseContractNum: the opening formula is used for closing.
CloseContractNumNoPrice(bid, a, m) == a \div m

\* `contract_num = int(coin_bid1 * self.amount / self.multipler[self.coin])` of
\* close_position_utils, for the quote bid / PriceUnit.
CloseContractNum(bid, a, m) == (bid * a) \div (PriceUnit * m)

SizeOpen ==
    /\ mode = "size" /\ pc = "size_open"
    /\ contract_num' = [contract_num EXCEPT !.open = OpenContractNum(amount, multipler)]
    /\ pc' = "size_close"
    /\ UNCHANGED <<mode, max_trial, num_maximum, threshold, execute_num, now_execute_num,
                   spot_ask1, coin_bid1, balance, num, func, params, is_exit, trace, result,
                   exc, raised_at, alerts, restarts, done, submitted, completed,
                   polls, met, transfers, now, called, amount, multipler>>

SizeClose ==
    /\ mode = "size" /\ pc = "size_close"
    /\ contract_num' = [contract_num EXCEPT
                            !.close = CloseContractNum(coin_bid1, amount, multipler)]
    /\ pc' = "sized"
    /\ UNCHANGED <<mode, max_trial, num_maximum, threshold, execute_num, now_execute_num,
                   spot_ask1, coin_bid1, balance, num, func, params, is_exit, trace, result,
                   exc, raised_at, alerts, restarts, done, submitted, completed,
                   polls, met, transfers, now, called, amount, multipler>>

\* ------------------------------------------------------------ specifications
NoParams == [symbol |-> "none", direction |-> "none"]

\* contract_num before either loop computed it.
NotSized == [open |-> -1, close |-> -1]

\* Position sizing is left out of the loops: the orders' quantities are not modelled.
NotSizing ==
    /\ amount = 1
    /\ multipler = 1
    /\ contract_num = NotSized

InitCommon ==
    /\ max_trial \in 1..MaxTrial
    /\ threshold \in Thresholds
    /\ execute_num = 0
    /\ now_execute_num = 0
    /\ spot_ask1 = 0
    /\ coin_bid1 = 0
    /\ balance \in Balances
    /\ num = 0
    /\ trace = <<>>
    /\ result = NoResult
    /\ exc = "none"
    /\ raised_at = "none"
    /\ alerts = 0
    /\ restarts = 0
    /\ done = {}
    /\ submitted = 0
    /\ completed = 0
    /\ polls = 0
    /\ met = 0
    /\ transfers = 0
    /\ called = {}

\* The process runs open_position() or close_position().
Init ==
    /\ InitCommon
    /\ mode \in {"open", "close"}
    /\ num_maximum \in 1..MaxNum
    /\ pc = IF mode = "open" THEN "o_spot_quote" ELSE "c_entry"
    /\ func = "none"
    /\ params = NoParams
    /\ is_exit = TRUE
    /\ now = 0
    /\ NotSizing

Next ==
    \/ OpenFetchSpotQuote \/ OpenFetchFutureQuote \/ OpenDecide \/ OpenSecondOrder
    \/ OpenTransfer \/ OpenCount \/ OpenCheck
    \/ CloseEntry \/ CloseFetchSpotQuote \/ CloseFetchFutureQuote \/ CloseDecide
    \/ CloseSecondOrder \/ CloseTransfer \/ CloseCount \/ CloseCheck \/ Supervisor
    \/ RetryAttempt \/ RetryExhausted

Spec == Init /\ [][Next]_vars

\* A bare call retry_wrapper(func, params, is_exit=...), for every operation
\* and every value of its direction or account-pair parameters.
Directions == {"long", "short", "open_short", "close_short", "open_long"}
Accounts == {"spot", "coin-margin", "margin"}
CallParams(f) ==
    IF f = "binance_account_transfer"
    THEN {[currency |-> "coin", amount |-> 3, from_account |-> a, to_account |-> b] :
              a \in Accounts, b \in Accounts}
    ELSE IF f = "exchange_call"
    THEN {[symbol |-> "sym", timestamp |-> 0], [symbol |-> "sym", recvWindow |-> 5000]}
    ELSE {[symbol |-> "sym", direction |-> d] : d \in Directions}

\* Clock readings before the call, in milliseconds.
StartTimes == {5000, 5600}

InitRetry ==
    /\ InitCommon
    /\ mode = "retry"
    /\ num_maximum = 1
    /\ pc = "call"
    /\ func \in {"binance_spot_place_order", "binance_future_place_order",
                 "binance_account_transfer", "exchange_call"}
    /\ params \in CallParams(func)
    /\ is_exit \in BOOLEAN
    /\ now \in StartTimes
    /\ NotSizing

NextRetry == RetryAttempt \/ RetryExhausted

SpecRetry == InitRetry /\ [][NextRetry]_vars

\* The process runs open_position() and is always scheduled again: no
\* statement of the loop blocks, every sleep ends, and every call to the
\* exchange answers or raises.
InitOpen == Init /\ mode = "open"

NextOpen ==
    \/ OpenFetchSpotQuote \/ OpenFetchFutureQuote \/ OpenDecide \/ OpenSecondOrder
    \/ OpenTransfer \/ OpenCount \/ OpenCheck
    \/ RetryAttempt \/ RetryExhausted

SpecOpen == InitOpen /\ [][NextOpen]_vars /\ WF_vars(NextOpen)

\* Position sizing on its own: contract_num as each loop computes it, for
\* every amount, multiplier and coin-margin quote tried.
Amounts == 1..MaxAmount
Multipliers == {1, 4, 10}
SizingPrices == {500, 1000, 1200, 2000, 3500}

InitSizing ==
    /\ mode = "size"
    /\ pc = "size_open"
    /\ amount \in Amounts
    /\ multipler \in Multipliers
    /\ coin_bid1 \in SizingPrices
    /\ spot_ask1 = PriceUnit
    /\ contract_num = NotSized
    /\ max_trial = 1 /\ num_maximum = 1 /\ threshold \in Thresholds
    /\ execute_num = 0 /\ now_execute_num = 0
    /\ balance \in Balances /\ num = 0
    /\ func = "none" /\ params = NoParams /\ is_exit = TRUE
    /\ trace = <<>> /\ result = NoResult /\ exc = "none" /\ raised_at = "none"
    /\ alerts = 0 /\ restarts = 0 /\ done = {} /\ submitted = 0 /\ completed = 0
    /\ polls = 0 /\ met = 0 /\ transfers = 0 /\ now = 0 /\ called = {}

NextSizing == SizeOpen \/ SizeClose

SpecSizing == InitSizing /\ [][NextSizing]_vars

\* ------------------------------------------------------------------ claims
InLoop == mode \in {"open", "close"}
Submitting(f) == InLoop /\ pc \in CallSites /\ func = f
Failures(t) == \A i \in 1..Len(t) : t[i] # "none"

C2_ExhaustionTerminates ==
    [][alerts' > 0 =>
         /\ pc' = "terminated"
         /\ exc' = "SystemExit"
         /\ submitted' = submitted
         /\ done' = done
         /\ completed' = completed
         /\ restarts' = restarts]_vars

C2_Witness ==
    /\ mode = "close" /\ pc = "terminated" /\ alerts = 1
    /\ raised_at = "c_order2" /\ done = {"future"}

\* C3: a call whose operation fails on every attempt makes exactly max_trial
\* attempts and then one alert; there is no alert before max_trial attempts
\* have failed, and never a second one.
C3_AlwaysFailing ==
    /\ alerts <= 1
    /\ alerts = 1 => (attempts = max_trial /\ Failures(trace))
    /\ (pc \notin CallSites /\ Failures(trace)) => (attempts = max_trial /\ alerts = 1)

C3_Witness ==
    /\ pc = "terminated" /\ alerts = 1 /\ max_trial >= 2 /\ attempts = max_trial
    /\ \A i \in 1..Len(trace) : trace[i] = "GatewayError"

\* C4: a call whose operation succeeds on attempt k after k-1 failures
\* returns the result of attempt k; there is no attempt after the success,
\* no alert, and the process is not terminated.
C4_SuccessOnAttemptK ==
    /\ \A i \in 1..(Len(trace) - 1) : trace[i] # "none"
    /\ (trace # <<>> /\ trace[Len(trace)] = "none") =>
         /\ pc = "returned"
         /\ result = [op |-> func, attempt |-> Len(trace)]
         /\ Len(trace) <= max_trial
         /\ alerts = 0
         /\ exc = "none"

C4_Witness ==
    /\ pc = "returned" /\ trace = <<"GatewayError", "none">>
    /\ result.attempt = 2

\* C5 as stated: while the process runs the closing counter never decreases,
\* and the closing phase completes at most num_maximum cycles.
C5_CounterNeverReset ==
    /\ [][mode = "close" => now_execute_num' >= now_execute_num]_vars
    /\ []((mode = "close" /\ num_maximum >= 1) => completed <= num_maximum)

\* C5, amended: the closing counter never decreases within one run of the
\* closing loop and is set to 0 at every (re)start of the loop by the
\* supervisor; one run of the loop completes at most num_maximum cycles
\* (num_maximum >= 1), the process at most num_maximum per run of the loop.
C5_CounterPerLoopRun ==
    /\ [][mode = "close" =>
            /\ (pc = "c_entry" /\ pc' # "c_caught") => now_execute_num' = 0
            /\ pc # "c_entry" => now_execute_num' >= now_execute_num]_vars
    /\ []((mode = "close" /\ num_maximum >= 1) =>
            /\ now_execute_num <= num_maximum
            /\ completed <= num_maximum * (restarts + 1))

C5_Witness ==
    /\ mode = "close" /\ num_maximum >= 1 /\ restarts >= 1
    /\ now_execute_num = 0 /\ pc = "c_spot_quote"
    /\ completed >= 1

\* C6: in both phases the amount of the transfer being submitted is the free
\* balance as it is after the two orders of the same cycle, not a balance
\* read before them.
C6_TransferOfFreshBalance ==
    (InLoop /\ pc \in {"o_transfer", "c_transfer"}) =>
        params.amount = balance

\* C7 as stated: no failure of an exchange call propagates out of the
\* opening loop; the opening phase ends on a failure only through the
\* terminal alert.
C7_AllFailuresRetried ==
    mode = "open" => (pc # "raised" /\ (pc = "terminated" => alerts >= 1))

FetchSites == {"o_spot_quote", "o_future_quote", "o_order2_done",
               "c_entry", "c_spot_quote", "c_future_quote"}

\* C7, amended: failures of order placements and transfers are handled by
\* retry_wrapper (retried, then alerted and the process exits); the quote and
\* balance fetches are direct calls, whose failure is neither retried nor
\* alerted: it leaves the loop, and ends the opening phase with no alert.
C7_OnlyWrappedCallsRetried ==
    /\ exc = "GatewayError" => raised_at \in FetchSites
    /\ exc = "SystemExit" /\ alerts > 0 =>
          (raised_at \in CallSites /\ attempts = max_trial /\ Failures(trace))
    /\ (mode = "open" /\ pc = "raised") => (exc = "GatewayError" /\ alerts = 0)
    /\ (mode = "open" /\ pc = "terminated") => (exc = "SystemExit" /\ alerts = 1)

C7_Witness ==
    /\ mode = "open" /\ pc = "raised" /\ raised_at = "o_order2_done"
    /\ done = {"spot", "future"} /\ alerts = 0

\* The call's parameters are a configuration error: the operation raises
\* before it reaches the exchange.
ConfigError == ~Call(func, params, "ok").reached

\* C8 as stated: an operation called with a configuration error is attempted
\* once, not retried, and the error leaves retry_wrapper with no alert.
C8_ConfigErrorFailsFast ==
    (mode = "retry" /\ ConfigError) =>
        /\ attempts <= 1
        /\ alerts = 0
        /\ attempts = 1 => pc = "raised"

\* C8, amended: a configuration error is treated as any other failure: it is
\* caught and retried, max_trial attempts in all, none of which reaches the
\* exchange, then alerted once, and the process exits unless is_exit is false.
C8_ConfigErrorRetried ==
    (mode = "retry" /\ ConfigError) =>
        /\ submitted = 0
        /\ \A i \in 1..Len(trace) : trace[i] \in {"ValueError", "TypeError"}
        /\ pc # "raised"
        /\ pc \notin CallSites =>
              /\ attempts = max_trial
              /\ alerts = 1
              /\ pc = IF is_exit THEN "terminated" ELSE "returned"
              /\ result = NoResult

C8_Witness ==
    /\ mode = "retry" /\ func = "binance_future_place_order" /\ params.direction = "open_long"
    /\ pc = "terminated" /\ trace = <<"TypeError", "TypeError">> /\ alerts = 1

\* A step of the closing phase in which a call to the exchange fails.
WrappedFailure ==
    /\ mode = "close" /\ pc \in CallSites
    /\ Len(trace') = Len(trace) + 1 /\ trace'[Len(trace')] # "none"
UnwrappedFailure ==
    /\ mode = "close" /\ pc \in FetchSites
    /\ exc = "none" /\ exc' = "GatewayError" /\ raised_at' = pc

\* C9 as stated: a failure inside a closing cycle is caught by the
\* supervisor, which restarts the loop once, the counter at 0; the process
\* is not terminated.
C9_FailureRestarts ==
    [][/\ (WrappedFailure \/ UnwrappedFailure) => pc' = "c_caught"
       /\ (mode = "close" /\ pc = "c_caught") => (pc' = "c_entry" /\ restarts' = restarts + 1)
       /\ (mode = "close" /\ pc = "c_entry" /\ pc' # "c_caught") => now_execute_num' = 0
       /\ (mode = "close" /\ alerts' > 0) => pc' # "terminated"]_vars

\* C9, amended: a failure of a call that is not retry-wrapped (quote fetch,
\* balance fetch) is caught by the supervisor, which restarts the closing
\* loop exactly once, with no termination and the counter back at 0; a
\* failure of a retry-wrapped step causes no restart: it is retried in
\* place, and once the retries are exhausted the process terminates.
C9_UnwrappedFailureRestarts ==
    [][mode = "close" =>
         /\ UnwrappedFailure => (pc' = "c_caught" /\ restarts' = restarts)
         /\ pc = "c_caught" => (pc' = "c_entry" /\ restarts' = restarts + 1)
         /\ restarts' # restarts => pc = "c_caught"
         /\ (pc = "c_entry" /\ pc' # "c_caught") => (pc' = "c_spot_quote" /\ now_execute_num' = 0)
         /\ WrappedFailure => (pc' = pc /\ restarts' = restarts)
         /\ alerts' # alerts => (pc' = "terminated" /\ restarts' = restarts)]_vars

C9_Witness ==
    /\ mode = "close" /\ restarts = 1 /\ pc = "c_spot_quote"
    /\ raised_at = "c_future_quote"
    /\ completed >= 1 /\ now_execute_num = 0

\* C10: with the counter at the maximum, the opening loop is left by a
\* return and the process goes on; the closing loop ends the process, which
\* the supervisor does not catch: nothing runs after the termination.
C10_MaxReached ==
    [][/\ (mode = "open" /\ pc = "o_check" /\ execute_num >= num_maximum) =>
             (pc' = "returned" /\ exc' = "none")
       /\ (mode = "close" /\ pc = "c_check" /\ now_execute_num >= num_maximum) =>
             (pc' = "terminated" /\ exc' = "SystemExit" /\ restarts' = restarts)
       /\ pc' = "returned" => (pc = "o_check" /\ execute_num >= num_maximum)
       /\ pc # "terminated"]_vars

C10_Witness ==
    /\ mode = "close" /\ pc = "terminated" /\ raised_at = "c_check"
    /\ num_maximum >= 1 /\ now_execute_num = num_maximum /\ alerts = 0

\* Positions of open_position outside an order cycle.
OpenPolling == {"o_spot_quote", "o_future_quote", "o_decide", "o_check", "returned"}

\* C11: in the opening phase the counter never exceeds num_maximum; between
\* cycles, and so after every poll, it equals the number of polls so far whose
\* spread met the threshold and the number of completed cycles; it changes
\* only by one, at the end of a cycle whose three steps returned; and after a
\* poll the loop polls again exactly when the counter is below num_maximum.
C11_CounterPerCycle ==
    /\ [](mode = "open" =>
            /\ execute_num <= num_maximum
            /\ pc \in OpenPolling => execute_num = met /\ execute_num = completed)
    /\ [][mode = "open" =>
            /\ execute_num' # execute_num =>
                  /\ execute_num' = execute_num + 1
                  /\ pc = "o_transfer_done"
                  /\ done = {"spot", "future", "transfer"}
            /\ pc = "o_check" =>
                  /\ pc' = "o_spot_quote" <=> execute_num < num_maximum
                  /\ pc' = "returned" <=> execute_num >= num_maximum]_vars

\* Third poll at 1.010 after two polls below the threshold 0.005: one cycle,
\* counter 1, and the loop about to poll again.
C11_Witness ==
    /\ mode = "open" /\ pc = "o_spot_quote"
    /\ threshold = 50 /\ spot_ask1 = 1000 /\ coin_bid1 = 1010
    /\ polls = 3 /\ met = 1 /\ execute_num = 1
    /\ alerts = 0 /\ exc = "none"

\* Positions of open_position inside an order cycle.
OpenCycle == {"o_order1", "o_order1_done", "o_order2", "o_order2_done",
              "o_transfer", "o_transfer_done"}

\* Positions of close_position_utils inside an order cycle.
CloseCycle == {"c_order1", "c_order1_done", "c_order2", "c_order2_done",
               "c_transfer", "c_transfer_done"}

\* What a poll that starts no cycle leaves alone: nothing is submitted and no
\* counter moves.
NothingSubmitted ==
    UNCHANGED <<execute_num, now_execute_num, func, params, trace, submitted, called,
                done, transfers, completed, met>>

\* C12: an opening poll starts an order cycle exactly when
\* futures_bid / spot_ask - 1 >= threshold, equality included; a poll below
\* the threshold goes to the end of the iteration with nothing submitted and
\* the counter unchanged, and orders and transfers are only ever in progress
\* under quotes that met the threshold.
C12_OpenTrigger ==
    /\ [](mode = "open" /\ pc \in OpenCycle =>
            (coin_bid1 - spot_ask1) * 10000 >= threshold * spot_ask1)
    /\ [][mode = "open" /\ pc = "o_decide" =>
            IF (coin_bid1 - spot_ask1) * 10000 >= threshold * spot_ask1
            THEN pc' = "o_order1" /\ func' = "binance_spot_place_order" /\ met' = met + 1
            ELSE pc' = "o_check" /\ NothingSubmitted]_vars
    /\ [][mode = "open" /\ pc = "o_check" => NothingSubmitted]_vars

\* A poll with the spread exactly at the threshold whose first order went out.
C12_Witness ==
    /\ mode = "open" /\ pc = "o_order1_done"
    /\ (coin_bid1 - spot_ask1) * 10000 = threshold * spot_ask1
    /\ submitted > 0

C14_NoExitReturnsNone ==
    mode = "retry" /\ ~is_exit /\ Failures(trace) =>
        IF pc \in CallSites
        THEN alerts = 0 /\ attempts <= max_trial
        ELSE /\ attempts = max_trial
             /\ alerts = 1
             /\ pc = "returned"
             /\ result = NoResult
             /\ exc = "none"

\* Several failed attempts, then the return of None.
C14_Witness ==
    /\ mode = "retry" /\ ~is_exit /\ pc = "returned"
    /\ max_trial > 1 /\ attempts = max_trial /\ Failures(trace)
    /\ alerts = 1 /\ result = NoResult

\* C15 as stated: when params carries a timestamp, after every attempt the
\* timestamp is the clock reading of that attempt in milliseconds, and the
\* timestamp never decreases over the attempts of a call.
C15_TimestampIsNow ==
    /\ [](mode = "retry" /\ HasTimestamp(params) /\ trace # <<>> => params.timestamp = now)
    /\ [][mode = "retry" /\ HasTimestamp(params) =>
            params'.timestamp >= params.timestamp]_vars

\* C16: while retry_wrapper runs with params that carry no timestamp, no
\* attempt, failed or successful, changes params, and every attempt called
\* func with those same params.
C16_ParamsUnchanged ==
    /\ [](pc \in CallSites \cup {"returned", "terminated"} /\ ~HasTimestamp(params) =>
            called \subseteq {params})
    /\ [][~HasTimestamp(params) /\ pc \in CallSites => UNCHANGED params]_vars

\* Failed attempts and then a successful one, all with the params of the call.
C16_Witness ==
    /\ mode = "retry" /\ pc = "returned" /\ ~HasTimestamp(params)
    /\ func = "exchange_call" /\ params = [symbol |-> "sym", recvWindow |-> 5000]
    /\ Len(trace) >= 2 /\ trace[1] # "none" /\ trace[Len(trace)] = "none"
    /\ called = {params}

\* C17 as stated: the closing and the opening contract counts differ whenever
\* the coin-margin price is not 1.
C17_CountsAlwaysDiffer ==
    mode = "size" /\ pc = "sized" /\ coin_bid1 # PriceUnit =>
        contract_num.close # contract_num.open

\* The absolute value of p_f - 1, in thousandths.
PriceGap == IF coin_bid1 >= PriceUnit THEN coin_bid1 - PriceUnit ELSE PriceUnit - coin_bid1

\* C17, amended: the closing count is at least the opening count when the
\* price is above 1 and at most the opening count when it is below 1, and
\* the two differ whenever |p_f - 1| * amount >= 2 * m.
C17_CountsCompared ==
    mode = "size" /\ pc = "sized" =>
        /\ coin_bid1 > PriceUnit => contract_num.close >= contract_num.open
        /\ coin_bid1 < PriceUnit => contract_num.close <= contract_num.open
        /\ PriceGap * amount >= 2 * multipler * PriceUnit =>
              contract_num.close # contract_num.open

\* Both counts computed for a price far enough from 1 that they differ.
C17_Witness ==
    /\ mode = "size" /\ pc = "sized"
    /\ coin_bid1 < PriceUnit
    /\ PriceGap * amount >= 2 * multipler * PriceUnit
    /\ contract_num.close < contract_num.open

\* The counter of the running loop.
Counter == IF mode = "open" THEN execute_num ELSE now_execute_num

\* The steps of a cycle are taken in line: the transfer is in progress only
\* when both orders of the cycle have returned, and the counter goes up only
\* by one, right after the transfer of the cycle has returned.
LinearSteps ==
    /\ [](InLoop /\ pc \in {"o_transfer", "c_transfer"} => {"spot", "future"} \subseteq done)
    /\ [][InLoop /\ Counter' > Counter =>
            /\ Counter' = Counter + 1
            /\ pc \in {"o_transfer_done", "c_transfer_done"}
            /\ done = {"spot", "future", "transfer"}]_vars

\* C18 as stated: the steps of a cycle are taken in line, and in every state
\* the counter equals the number of successful transfers of the current loop
\* run.
C18_CounterIsTransfers ==
    /\ LinearSteps
    /\ [](InLoop => Counter = transfers)

\* C18, amended: the steps of a cycle are taken in line, and the counter
\* equals the number of successful transfers of the current loop run except
\* between the return of a transfer and the increment that follows it, where
\* it is one less.
C18_CounterFollowsTransfers ==
    /\ LinearSteps
    /\ [](InLoop =>
            IF pc \in {"o_transfer_done", "c_transfer_done"}
            THEN Counter = transfers - 1
            ELSE Counter = transfers)

\* A second run of the closing loop, after a restart, that has completed one
\* cycle of its own.
C18_Witness ==
    /\ mode = "close" /\ pc = "c_check" /\ restarts >= 1
    /\ now_execute_num = 1 /\ transfers = 1 /\ completed = 2
    /\ done = {"spot", "future", "transfer"}

\* No call to the exchange made outside retry_wrapper has failed and no
\* retry_wrapper call has run out of attempts.
NoGatewayFailure == exc = "none" /\ alerts = 0

\* The poll being decided meets the opening threshold.
MeetsThreshold ==
    pc = "o_decide" /\ (coin_bid1 - spot_ask1) * 10000 >= threshold * spot_ask1

\* C19: in the opening loop, scheduled fairly and with no gateway failure,
\* if polls keep meeting the threshold for as long as the loop runs, the loop
\* eventually returns with exactly num_maximum cycles completed; if no poll
\* ever meets the threshold, the loop never returns and polls again and
\* again.
C19_OpenLiveness ==
    /\ ([]NoGatewayFailure /\ []<>(MeetsThreshold \/ pc = "returned")) =>
           <>(pc = "returned" /\ execute_num = num_maximum /\ completed = num_maximum)
    /\ ([]NoGatewayFailure /\ []~MeetsThreshold) =>
           ([](pc # "returned") /\ []<>(pc = "o_decide"))

\* The loop returned after num_maximum cycles, having seen polls below the
\* threshold and a failed attempt that was retried.
C19_Witness ==
    /\ mode = "open" /\ pc = "returned"
    /\ num_maximum >= 2 /\ execute_num = num_maximum
    /\ polls > met
    /\ Len(trace) >= 2
    /\ NoGatewayFailure

====
